---- MODULE Spec2Model ----
(***************************************************************************)
(* kalamar.storage.base.AccessPoint: protocol dispatch (from_url),         *)
(* construction (__init__), expansion of syntaxic sugar in requests        *)
(* (expand_syntaxic_sugar) and the search generator (search).              *)
(*                                                                         *)
(* A Python string that the code splits is a sequence of one-character     *)
(* strings; Str turns such a sequence into a name.  A condition is a       *)
(* triple <<property_name, operator, value>> whose first two fields may be *)
(* None.                                                                   *)
(***************************************************************************)
EXTENDS Integers, Sequences, FiniteSets, TLC

VARIABLES
    storage_aliases,     \* self.storage_aliases: sequence of <<alias, native>>
    parser_aliases,      \* self.parser_aliases: sequence of <<alias, native>>
    property_names,      \* self.property_names
    storage_props,       \* what the backend's get_storage_properties returns
    pc,                  \* position of the search generator
    conditions,          \* local "conditions" of search
    storage_conditions,  \* local "storage_conditions" of search
    parser_conditions,   \* local "parser_conditions" of search
    results,             \* the sequence _storage_search returned: the properties
                         \* of the item made from each StorageResult
    consumed,            \* how many StorageResults the for loop has taken
    cond_index,          \* position of the inner loop over parser_conditions
    yielded,             \* the items yielded, in order
    evaluated,           \* <<result index, condition index>> of each operator call
    error,               \* the exception that left the generator, or None
    gsp_calls,           \* calls of get_storage_properties
    ss_calls,            \* calls of _storage_search
    opened,              \* the openers invoked (a result's opener is its index)
    expansion,           \* last list(expand_syntaxic_sugar(...)) call
    registry,            \* getattr(subclass, 'protocol', None) of each class
    dispatch             \* last from_url call

vars == <<storage_aliases, parser_aliases, property_names, storage_props, pc,
          conditions, storage_conditions, parser_conditions, results,
          consumed, cond_index, yielded, evaluated, error, gsp_calls,
          ss_calls, opened, expansion, registry, dispatch>>

None == "None"

-----------------------------------------------------------------------------
(* Bounds of the model. *)

MaxAliases == 2
MaxConds == 2
MaxResults == 2
MaxUrlLen == 3

-----------------------------------------------------------------------------
(* Python strings. *)

RECURSIVE Str(_)
\* The name a sequence of characters spells.
Str(s) == IF s = <<>> THEN "" ELSE Head(s) \o Str(Tail(s))

\* Index of the first occurrence of character sep in s, 0 when there is none.
Find(s, sep) ==
    IF \E i \in 1..Len(s) : s[i] = sep
    THEN CHOOSE i \in 1..Len(s) : s[i] = sep /\ \A j \in 1..(i - 1) : s[j] # sep
    ELSE 0

\* s.split(sep, 1)
SplitOnce(s, sep) ==
    LET i == Find(s, sep)
    IN  IF i = 0 THEN <<s>>
        ELSE <<SubSeq(s, 1, i - 1), SubSeq(s, i + 1, Len(s))>>

RECURSIVE Split(_, _)
\* s.split(sep)
Split(s, sep) ==
    LET i == Find(s, sep)
    IN  IF i = 0 THEN <<s>>
        ELSE <<SubSeq(s, 1, i - 1)>> \o Split(SubSeq(s, i + 1, Len(s)), sep)

RECURSIVE Join(_, _)
\* sep.join(parts), the way a configuration string is written
Join(parts, sep) ==
    IF parts = <<>> THEN <<>>
    ELSE IF Len(parts) = 1 THEN parts[1]
    ELSE parts[1] \o <<sep>> \o Join(Tail(parts), sep)

-----------------------------------------------------------------------------
(* AccessPoint.__init__ *)

RECURSIVE ParseParts(_)
\* [tuple(part.split('=', 1)) for part in parts if '=' in part]
ParseParts(parts) ==
    IF parts = <<>> THEN <<>>
    ELSE LET part == Head(parts)
             rest == ParseParts(Tail(parts))
         IN  IF Find(part, "=") # 0
             THEN LET kv == SplitOnce(part, "=")
                  IN  <<<<Str(kv[1]), Str(kv[2])>>>> \o rest
             ELSE rest

\* config.get(prop, '').split('/') parsed into (alias, native) tuples
ParseAliases(text) == ParseParts(Split(text, "/"))

\* self.property_names
PropertyNames(storage, parser) ==
    [i \in 1..(Len(storage) + Len(parser)) |-> (storage \o parser)[i][1]]

-----------------------------------------------------------------------------
(* AccessPoint.expand_syntaxic_sugar *)

RECURSIVE ExpandOneBased(_, _, _)
\* Mutant: the positions are counted from 1, as enumerate(conditions, 1) would.
ExpandOneBased(names, conds, n) ==
    IF n >= Len(conds) THEN [out |-> <<>>, raised |-> FALSE]
    ELSE LET c == conds[n + 1]
             operator == IF c[2] = None THEN "eq" ELSE c[2]
         IN  IF c[1] = None /\ ~(n + 1 < Len(names))
             THEN [out |-> <<>>, raised |-> TRUE]
             ELSE LET property_name == IF c[1] = None THEN names[n + 2] ELSE c[1]
                      rest == ExpandOneBased(names, conds, n + 1)
                  IN  [out |-> <<<<property_name, operator, c[3]>>>> \o rest.out,
                       raised |-> rest.raised]

RECURSIVE ExpandCounting(_, _, _, _)
ExpandCounting(names, conds, n, used) ==
    IF n >= Len(conds) THEN [out |-> <<>>, raised |-> FALSE]
    ELSE LET c == conds[n + 1]
             operator == IF c[2] = None THEN "eq" ELSE c[2]
         IN  IF c[1] = None /\ ~(used < Len(names))
             THEN [out |-> <<>>, raised |-> TRUE]
             ELSE LET property_name == IF c[1] = None THEN names[used + 1] ELSE c[1]
                      rest == ExpandCounting(names, conds, n + 1,
                                             IF c[1] = None THEN used + 1 ELSE used)
                  IN  [out |-> <<<<property_name, operator, c[3]>>>> \o rest.out,
                       raised |-> rest.raised]

\* Mutant: the k-th condition without a name takes the k-th property name.
ExpandByCount(names, conds, n) == ExpandCounting(names, conds, n, 0)

RECURSIVE ExpandSkipping(_, _, _)
\* Mutant: a condition without a name and without positional default is
\* dropped instead of raising IndexError.
ExpandSkipping(names, conds, n) ==
    IF n >= Len(conds) THEN [out |-> <<>>, raised |-> FALSE]
    ELSE LET c == conds[n + 1]
             operator == IF c[2] = None THEN "eq" ELSE c[2]
             rest == ExpandSkipping(names, conds, n + 1)
         IN  IF c[1] = None /\ ~(n < Len(names))
             THEN rest
             ELSE LET property_name == IF c[1] = None THEN names[n + 1] ELSE c[1]
                  IN  [out |-> <<<<property_name, operator, c[3]>>>> \o rest.out,
                       raised |-> rest.raised]

RECURSIVE ExpandFrom(_, _, _)
\* The generator's loop from the n-th condition (n counts from 0, as
\* enumerate does): the conditions it yields and whether property_names[n]
\* raised IndexError.
ExpandFrom(names, conds, n) ==
    IF n >= Len(conds) THEN [out |-> <<>>, raised |-> FALSE]
    ELSE LET c == conds[n + 1]
             operator == IF c[2] = None THEN "eq" ELSE c[2]
         IN  IF c[1] = None /\ ~(n < Len(names))
             THEN [out |-> <<>>, raised |-> TRUE]
             ELSE LET property_name == IF c[1] = None THEN names[n + 1] ELSE c[1]
                      rest == ExpandFrom(names, conds, n + 1)
                  IN  [out |-> <<<<property_name, operator, c[3]>>>> \o rest.out,
                       raised |-> rest.raised]

expand_syntaxic_sugar(names, conds) == ExpandFrom(names, conds, 0)

-----------------------------------------------------------------------------
(* Operators and items. *)

\* operator(actual, expected) for the comparison operators of utils.operator
Apply(operator, actual, expected) ==
    CASE operator = "eq" -> actual = expected
      [] operator = "gt" -> actual > expected
      [] operator = "ge" -> actual >= expected

\* dict(pairs)[key]: the last pair with that key wins
DictGet(pairs, key) ==
    LET i == CHOOSE i \in 1..Len(pairs) :
                 pairs[i][1] = key /\ \A j \in (i + 1)..Len(pairs) : pairs[j][1] # key
    IN  pairs[i][2]

\* key in dict(pairs)
DictHas(pairs, key) == \E i \in 1..Len(pairs) : pairs[i][1] = key

\* (b, a) for (a, b) in pairs
Reversed(pairs) == [i \in 1..Len(pairs) |-> <<pairs[i][2], pairs[i][1]>>]

\* The comparison set "storage_properties" that search builds from what
\* get_storage_properties returned.
StorageProperties(aliases, old) ==
    LET storage_aliases_reverse == Reversed(aliases)
    IN  {IF DictHas(storage_aliases_reverse, prop)
         THEN DictGet(storage_aliases_reverse, prop) ELSE prop : prop \in old}
        \cup old

\* storage_aliases[name]: the native name, or KeyError
NativeName(aliases, name) ==
    IF DictHas(aliases, name)
    THEN [raised |-> FALSE, name |-> DictGet(aliases, name)]
    ELSE [raised |-> TRUE, name |-> name]

RECURSIVE PartitionFrom(_, _, _, _, _, _)
\* The loop that divides the conditions, from the i-th one, with the two
\* lists built so far; raised when storage_aliases[name] raised KeyError.
PartitionFrom(conds, aliases, sprops, i, sc, pcs) ==
    IF i > Len(conds) THEN [storage |-> sc, parser |-> pcs, raised |-> FALSE]
    ELSE LET c == conds[i]
         IN  IF c[1] \in sprops
             THEN LET native == NativeName(aliases, c[1])
                  IN  IF native.raised
                      THEN [storage |-> sc, parser |-> pcs, raised |-> TRUE]
                      ELSE PartitionFrom(conds, aliases, sprops, i + 1,
                                         Append(sc, <<native.name, c[2], c[3]>>), pcs)
             ELSE PartitionFrom(conds, aliases, sprops, i + 1, sc, Append(pcs, c))

Partition(conds, aliases, old) ==
    PartitionFrom(conds, aliases, StorageProperties(aliases, old), 1, <<>>, <<>>)

-----------------------------------------------------------------------------
(* Inputs. *)

\* The sequences over S of length at most n.
SeqsUpTo(S, n) == UNION {[1..k -> S] : k \in 0..n}

\* Parts of a storage_aliases configuration string: "a=p", "p=d", and "x",
\* which has no '='.
AliasParts == {<<"a", "=", "p">>, <<"p", "=", "d">>, <<"x">>}

StorageAliasConfigs == {Join(parts, "/") : parts \in SeqsUpTo(AliasParts, MaxAliases)}

\* parser_aliases configuration strings: the default '' and "d=t".
ParserAliasConfigs == {<<>>, <<"d", "=", "t">>}

\* What a backend's get_storage_properties may return.
BackendProperties == SUBSET {"p"}

\* Requests to search: names and operators may be omitted.
SearchConditions == {None, "a", "p"} \X {None, "gt"} \X {1}

\* Requests to expand_syntaxic_sugar.
ExpandConditions == {None, "a", "d"} \X {None, "gt"} \X {1, 2}

\* The properties of the StorageResults a backend returns.
Records == {[a |-> 1, p |-> 1], [a |-> 2, p |-> 2], [a |-> 2]}

-----------------------------------------------------------------------------
(* The access point after construction, nothing called yet. *)

DefaultRegistry == [c \in {"AccessPoint", "FileSystem", "DataBase", "Ftp"} |-> None]

NoCall == [called |-> FALSE]

Constructed(storage_text, parser_text, props) ==
    /\ storage_aliases = ParseAliases(storage_text)
    /\ parser_aliases = ParseAliases(parser_text)
    /\ property_names = PropertyNames(ParseAliases(storage_text),
                                      ParseAliases(parser_text))
    /\ storage_props = props
    /\ pc = "none"
    /\ conditions = <<>>
    /\ storage_conditions = <<>>
    /\ parser_conditions = <<>>
    /\ results = <<>>
    /\ consumed = 0
    /\ cond_index = 0
    /\ yielded = <<>>
    /\ evaluated = <<>>
    /\ error = None
    /\ gsp_calls = 0
    /\ ss_calls = 0
    /\ opened = {}
    /\ expansion = NoCall
    /\ dispatch = NoCall

Init ==
    /\ \E st \in StorageAliasConfigs, pt \in ParserAliasConfigs,
          props \in BackendProperties : Constructed(st, pt, props)
    /\ registry = DefaultRegistry

-----------------------------------------------------------------------------
(* AccessPoint.search: a generator. *)

genvars == <<pc, conditions, storage_conditions, parser_conditions, results,
             consumed, cond_index, yielded, evaluated, error, gsp_calls,
             ss_calls, opened>>
selfvars == <<storage_aliases, parser_aliases, property_names, storage_props>>
othervars == <<expansion, registry, dispatch>>

\* Mutant: search is no generator and asks the backend for its properties
\* when it is called.
search_eager(conds) ==
    /\ pc = "none"
    /\ pc' = "created"
    /\ conditions' = conds
    /\ gsp_calls' = gsp_calls + 1
    /\ UNCHANGED <<storage_conditions, parser_conditions, results, consumed,
                   cond_index, yielded, evaluated, error, ss_calls, opened>>
    /\ UNCHANGED <<selfvars, othervars>>

\* search(conds): the call only creates the generator.
search(conds) ==
    /\ pc = "none"
    /\ pc' = "created"
    /\ conditions' = conds
    /\ UNCHANGED <<storage_conditions, parser_conditions, results, consumed,
                   cond_index, yielded, evaluated, error, gsp_calls, ss_calls,
                   opened>>
    /\ UNCHANGED <<selfvars, othervars>>

\* next(generator): the caller asks for the next item.
Resume ==
    /\ \/ pc = "created" /\ pc' = "expand"
       \/ pc = "suspended" /\ pc' = "fetch"
    /\ UNCHANGED <<conditions, storage_conditions, parser_conditions, results,
                   consumed, cond_index, yielded, evaluated, error, gsp_calls,
                   ss_calls, opened>>
    /\ UNCHANGED <<selfvars, othervars>>

\* The caller stops iterating and drops the generator.
Close ==
    /\ pc \in {"created", "suspended"}
    /\ pc' = "closed"
    /\ UNCHANGED <<conditions, storage_conditions, parser_conditions, results,
                   consumed, cond_index, yielded, evaluated, error, gsp_calls,
                   ss_calls, opened>>
    /\ UNCHANGED <<selfvars, othervars>>

\* Mutant: the expansion is not forced by list(), so a missing positional
\* default does not stop the search before the backend is asked.
ExpandUnforced ==
    /\ pc = "expand"
    /\ LET e == expand_syntaxic_sugar(property_names, conditions)
       IN  \/ /\ e.raised
              /\ pc' = "partition"
              /\ UNCHANGED <<conditions, error>>
           \/ /\ ~e.raised
              /\ pc' = "partition"
              /\ conditions' = e.out
              /\ UNCHANGED error
    /\ UNCHANGED <<storage_conditions, parser_conditions, results, consumed,
                   cond_index, yielded, evaluated, gsp_calls, ss_calls, opened>>
    /\ UNCHANGED <<selfvars, othervars>>

\* conditions = list(self.expand_syntaxic_sugar(conditions))
Expand ==
    /\ pc = "expand"
    /\ LET e == expand_syntaxic_sugar(property_names, conditions)
       IN  \/ /\ e.raised
              /\ pc' = "raised"
              /\ error' = "IndexError"
              /\ UNCHANGED conditions
           \/ /\ ~e.raised
              /\ pc' = "partition"
              /\ conditions' = e.out
              /\ UNCHANGED error
    /\ UNCHANGED <<storage_conditions, parser_conditions, results, consumed,
                   cond_index, yielded, evaluated, gsp_calls, ss_calls, opened>>
    /\ UNCHANGED <<selfvars, othervars>>

\* From get_storage_properties() to the end of the loop that fills
\* storage_conditions and parser_conditions.
Divide ==
    /\ pc = "partition"
    /\ gsp_calls' = gsp_calls + 1
    /\ LET d == Partition(conditions, storage_aliases, storage_props)
       IN  /\ storage_conditions' = d.storage
           /\ parser_conditions' = d.parser
           /\ \/ /\ d.raised
                 /\ pc' = "raised"
                 /\ error' = "KeyError"
              \/ /\ ~d.raised
                 /\ pc' = "storage_search"
                 /\ UNCHANGED error
    /\ UNCHANGED <<conditions, results, consumed, cond_index, yielded,
                   evaluated, ss_calls, opened>>
    /\ UNCHANGED <<selfvars, othervars>>

\* self._storage_search(storage_conditions): the backend answers with a
\* sequence of StorageResults.
StorageSearch ==
    /\ pc = "storage_search"
    /\ ss_calls' = ss_calls + 1
    /\ \E rs \in SeqsUpTo(Records, MaxResults) : results' = rs
    /\ pc' = "fetch"
    /\ UNCHANGED <<conditions, storage_conditions, parser_conditions, consumed,
                   cond_index, yielded, evaluated, error, gsp_calls, opened>>
    /\ UNCHANGED <<selfvars, othervars>>

\* The for loop takes the next StorageResult and makes an item of it, or
\* ends when there is none.
Fetch ==
    /\ pc = "fetch"
    /\ \/ /\ consumed < Len(results)
          /\ consumed' = consumed + 1
          /\ cond_index' = 1
          /\ pc' = "filter"
       \/ /\ consumed >= Len(results)
          /\ pc' = "done"
          /\ UNCHANGED <<consumed, cond_index>>
    /\ UNCHANGED <<conditions, storage_conditions, parser_conditions, results,
                   yielded, evaluated, error, gsp_calls, ss_calls, opened>>
    /\ UNCHANGED <<selfvars, othervars>>

\* Item.get_item_parser(self.config['parser'], self, opener, properties) for
\* the k-th StorageResult
Item(k) == [properties |-> results[k], opener |-> k]

\* Mutant: the item is yielded although a parser condition is false.
FilterYieldsRejected ==
    /\ pc = "filter"
    /\ \/ /\ cond_index > Len(parser_conditions)
          /\ yielded' = Append(yielded, Item(consumed))
          /\ pc' = "suspended"
          /\ UNCHANGED <<cond_index, evaluated, error>>
       \/ /\ cond_index <= Len(parser_conditions)
          /\ evaluated' = Append(evaluated, <<consumed, cond_index>>)
          /\ LET c == parser_conditions[cond_index]
                 properties == Item(consumed).properties
             IN  \/ /\ c[1] \notin DOMAIN properties
                    /\ pc' = "raised"
                    /\ error' = "KeyError"
                    /\ UNCHANGED <<cond_index, yielded>>
                 \/ /\ c[1] \in DOMAIN properties
                    /\ ~Apply(c[2], properties[c[1]], c[3])
                    /\ yielded' = Append(yielded, Item(consumed))
                    /\ pc' = "suspended"
                    /\ UNCHANGED <<cond_index, error>>
                 \/ /\ c[1] \in DOMAIN properties
                    /\ Apply(c[2], properties[c[1]], c[3])
                    /\ cond_index' = cond_index + 1
                    /\ UNCHANGED <<pc, error, yielded>>
    /\ UNCHANGED <<conditions, storage_conditions, parser_conditions, results,
                   consumed, gsp_calls, ss_calls, opened>>
    /\ UNCHANGED <<selfvars, othervars>>

\* Mutant: a false parser condition does not break out of the loop.
FilterNoBreak ==
    /\ pc = "filter"
    /\ \/ /\ cond_index > Len(parser_conditions)
          /\ yielded' = Append(yielded, Item(consumed))
          /\ pc' = "suspended"
          /\ UNCHANGED <<cond_index, evaluated, error>>
       \/ /\ cond_index <= Len(parser_conditions)
          /\ evaluated' = Append(evaluated, <<consumed, cond_index>>)
          /\ LET c == parser_conditions[cond_index]
                 properties == Item(consumed).properties
             IN  \/ /\ c[1] \notin DOMAIN properties
                    /\ pc' = "raised"
                    /\ error' = "KeyError"
                    /\ UNCHANGED cond_index
                 \/ /\ c[1] \in DOMAIN properties
                    /\ cond_index' = cond_index + 1
                    /\ UNCHANGED <<pc, error>>
          /\ UNCHANGED yielded
    /\ UNCHANGED <<conditions, storage_conditions, parser_conditions, results,
                   consumed, gsp_calls, ss_calls, opened>>
    /\ UNCHANGED <<selfvars, othervars>>

\* for name, function, value in parser_conditions: ... else: yield item
Filter ==
    /\ pc = "filter"
    /\ \/ /\ cond_index > Len(parser_conditions)
          /\ yielded' = Append(yielded, Item(consumed))
          /\ pc' = "suspended"
          /\ UNCHANGED <<cond_index, evaluated, error>>
       \/ /\ cond_index <= Len(parser_conditions)
          /\ evaluated' = Append(evaluated, <<consumed, cond_index>>)
          /\ LET c == parser_conditions[cond_index]
                 properties == Item(consumed).properties
             IN  \/ /\ c[1] \notin DOMAIN properties
                    /\ pc' = "raised"
                    /\ error' = "KeyError"
                    /\ UNCHANGED cond_index
                 \/ /\ c[1] \in DOMAIN properties
                    /\ ~Apply(c[2], properties[c[1]], c[3])
                    /\ pc' = "fetch"
                    /\ UNCHANGED <<cond_index, error>>
                 \/ /\ c[1] \in DOMAIN properties
                    /\ Apply(c[2], properties[c[1]], c[3])
                    /\ cond_index' = cond_index + 1
                    /\ UNCHANGED <<pc, error>>
          /\ UNCHANGED yielded
    /\ UNCHANGED <<conditions, storage_conditions, parser_conditions, results,
                   consumed, gsp_calls, ss_calls, opened>>
    /\ UNCHANGED <<selfvars, othervars>>

\* The caller reads the content of an item it was given: the item invokes
\* its opener.
ReadContent(i) ==
    /\ pc \in {"suspended", "done", "closed", "raised"}
    /\ \E k \in 1..Len(yielded) : yielded[k].opener = i
    /\ i \notin opened
    /\ opened' = opened \cup {i}
    /\ UNCHANGED <<pc, conditions, storage_conditions, parser_conditions,
                   results, consumed, cond_index, yielded, evaluated, error,
                   gsp_calls, ss_calls>>
    /\ UNCHANGED <<selfvars, othervars>>

Next ==
    \/ \E conds \in SeqsUpTo(SearchConditions, MaxConds) : search(conds)
    \/ Resume
    \/ Close
    \/ Expand
    \/ Divide
    \/ StorageSearch
    \/ Fetch
    \/ Filter
    \/ \E i \in 1..MaxResults : ReadContent(i)

Spec == Init /\ [][Next]_vars

-----------------------------------------------------------------------------
(* expand_syntaxic_sugar called on its own, as in its doctest. *)

\* list(ap.expand_syntaxic_sugar(conds)), called once
ExpandCall(conds) ==
    /\ ~expansion.called
    /\ expansion' = [called |-> TRUE, input |-> conds, again |-> FALSE,
                     result |-> expand_syntaxic_sugar(property_names, conds)]
    /\ UNCHANGED <<genvars, selfvars, registry, dispatch>>

\* The output of an expansion that succeeded is expanded again.
ExpandAgain ==
    /\ expansion.called
    /\ ~expansion.again
    /\ ~expansion.result.raised
    /\ expansion' = [called |-> TRUE, input |-> expansion.result.out, again |-> TRUE,
                     result |-> expand_syntaxic_sugar(property_names,
                                                      expansion.result.out)]
    /\ UNCHANGED <<genvars, selfvars, registry, dispatch>>

NextExpand ==
    \/ \E conds \in SeqsUpTo(ExpandConditions, MaxConds) : ExpandCall(conds)
    \/ ExpandAgain

SpecExpand == Init /\ [][NextExpand]_vars

-----------------------------------------------------------------------------
(* AccessPoint.from_url *)

Classes == {"AccessPoint", "FileSystem", "DataBase", "Ftp"}

\* The class each backend class derives from.
Base(c) ==
    CASE c = "FileSystem" -> "AccessPoint"
      [] c = "DataBase" -> "AccessPoint"
      [] c = "Ftp" -> "FileSystem"
      [] OTHER -> None

\* utils.recursive_subclasses(cls): cls and the classes derived from it,
\* directly or not.
recursive_subclasses(cls) ==
    {c \in Classes : c = cls \/ Base(c) = cls \/ (Base(c) # None /\ Base(Base(c)) = cls)}

\* The protocol attributes a registered class may show to getattr: none, or
\* the protocol "f" or "ft".
Registries ==
    {r \in [Classes -> {None, "f", "ft"}] : r["AccessPoint"] = None}

UrlChars == {"f", "t", ":"}

\* Mutant: the URL is split at its last ':', as rsplit would.
ProtocolOfLast(url) ==
    LET colons == {i \in 1..Len(url) : url[i] = ":"}
    IN  IF colons = {} THEN Str(url)
        ELSE Str(SubSeq(url, 1, (CHOOSE i \in colons : \A j \in colons : j <= i) - 1))

\* config['url'].split(':', 1)[0]
ProtocolOf(url) == Str(SplitOnce(url, ":")[1])

\* cls.from_url(url=url): the first class of recursive_subclasses(cls) whose
\* protocol is the URL's is instantiated; ValueError when there is none.
\* Called once.
from_url(cls, url) ==
    LET protocol == ProtocolOf(url)
        matching == {c \in recursive_subclasses(cls) : registry[c] = protocol}
    IN  /\ ~dispatch.called
        /\ \/ /\ matching # {}
              /\ \E subclass \in matching :
                     dispatch' = [called |-> TRUE, cls |-> cls, url |-> url,
                                  protocol |-> protocol, raised |-> None,
                                  instance |-> [class |-> subclass, url |-> url]]
           \/ /\ matching = {}
              /\ dispatch' = [called |-> TRUE, cls |-> cls, url |-> url,
                              protocol |-> protocol, raised |-> "ValueError",
                              instance |-> [class |-> None, url |-> <<>>]]
        /\ UNCHANGED <<genvars, selfvars, registry, expansion>>

InitFromUrl ==
    /\ Constructed(<<>>, <<>>, {})
    /\ registry \in Registries

NextFromUrl ==
    \E cls \in Classes, url \in SeqsUpTo(UrlChars, MaxUrlLen) : from_url(cls, url)

SpecFromUrl == InitFromUrl /\ [][NextFromUrl]_vars

-----------------------------------------------------------------------------
(* Properties of expand_syntaxic_sugar, under SpecExpand. *)

\* What the i-th condition (i counts from 1) must expand to.
ExpectedCondition(names, c, i) ==
    <<IF c[1] = None THEN names[i] ELSE c[1], IF c[2] = None THEN "eq" ELSE c[2], c[3]>>

\* The positions (from 1) of the conditions without a name whose 0-based
\* position is not below the number of property names.
NoDefault(names, conds) ==
    {i \in 1..Len(conds) : conds[i][1] = None /\ ~((i - 1) < Len(names))}

\* How many conditions omit their property name.
UnnamedCount(conds) == Cardinality({i \in 1..Len(conds) : conds[i][1] = None})

FullySpecified(conds) == \A i \in 1..Len(conds) : conds[i][1] # None /\ conds[i][2] # None

DocAliases == <<"a", "=", "p", "1", "/", "b", "=", "p", "2", "/", "c", "=", "p", "3">>

DocRequest == <<<<None, None, 1>>, <<None, "gt", 2>>, <<"c", None, 3>>, <<"d", "ge", 4>>>>

DocExpansion == <<<<"a", "eq", 1>>, <<"b", "gt", 2>>, <<"c", "eq", 3>>, <<"d", "ge", 4>>>>

\* C3: the condition at position i keeps its value, gets equality iff its
\* operator was omitted and the i-th property name iff its name was omitted;
\* the expansion fails iff some condition without a name sits at a position
\* that is not below the number of property names; and the docstring's
\* example (aliases a=p1/b=p2/c=p3) expands as documented.
C3_ExpandsByPosition ==
    /\ expansion.called =>
           LET in == expansion.input
               r == expansion.result
           IN  /\ r.raised <=> NoDefault(property_names, in) # {}
               /\ ~r.raised =>
                      r.out = [i \in 1..Len(in) |->
                                   ExpectedCondition(property_names, in[i], i)]
    /\ expand_syntaxic_sugar(PropertyNames(ParseAliases(DocAliases), ParseAliases(<<>>)),
                             DocRequest)
           = [out |-> DocExpansion, raised |-> FALSE]

\* A named condition comes first and the second, which omits name and
\* operator, took the second property name.
C3_Witness ==
    /\ expansion.called
    /\ ~expansion.again
    /\ ~expansion.result.raised
    /\ Len(expansion.input) = 2
    /\ expansion.input[1][1] # None
    /\ expansion.input[2][1] = None
    /\ expansion.input[2][2] = None
    /\ expansion.result.out[2] = <<property_names[2], "eq", expansion.input[2][3]>>

\* C4 as stated: the expansion fails exactly when the number of conditions
\* without a name exceeds the number of property names.
C4_FailsOnlyByCount ==
    expansion.called =>
        (expansion.result.raised <=>
             UnnamedCount(expansion.input) > Len(property_names))

\* C4 as amended: the expansion succeeds exactly when every condition without
\* a name sits at a 0-based position below the number of property names; a
\* count of such conditions within that number is necessary, not sufficient.
C4_FailsByPosition ==
    expansion.called =>
        LET in == expansion.input
        IN  /\ ~expansion.result.raised <=>
                   \A i \in 1..Len(in) : in[i][1] = None => (i - 1) < Len(property_names)
            /\ UnnamedCount(in) > Len(property_names) => expansion.result.raised

\* The expansion failed although there are at least as many property names
\* as conditions without a name.
C4_Witness ==
    /\ expansion.called
    /\ expansion.result.raised
    /\ Len(property_names) >= 1
    /\ UnnamedCount(expansion.input) <= Len(property_names)

\* C9: an expansion that succeeds has one condition per input condition, in
\* input order; a list whose conditions all have a name and an operator
\* expands to itself, whatever the property names (none included); so the
\* output of an expansion expands to itself.
C9_LengthOrderIdempotent ==
    expansion.called =>
        LET in == expansion.input
            r == expansion.result
        IN  /\ ~r.raised =>
                   /\ Len(r.out) = Len(in)
                   /\ \A i \in 1..Len(in) :
                          /\ r.out[i][3] = in[i][3]
                          /\ in[i][1] # None => r.out[i][1] = in[i][1]
                          /\ in[i][2] # None => r.out[i][2] = in[i][2]
                   /\ FullySpecified(r.out)
                   /\ expand_syntaxic_sugar(property_names, r.out) = r
                   /\ expand_syntaxic_sugar(<<>>, r.out) = r
            /\ FullySpecified(in) => r = [out |-> in, raised |-> FALSE]
            /\ expansion.again => r = [out |-> in, raised |-> FALSE]

\* The two-condition output of an expansion, its first name the first
\* property name, was expanded again and came back unchanged.
C9_Witness ==
    /\ expansion.called
    /\ expansion.again
    /\ Len(expansion.input) = 2
    /\ Len(property_names) >= 1
    /\ expansion.input[1][1] = property_names[1]
    /\ expansion.result.out = expansion.input

-----------------------------------------------------------------------------
(* Properties of from_url, under SpecFromUrl. *)

\* The characters of url before its first ':', all of them when it has none.
Token(url) ==
    LET k == CHOOSE k \in 0..Len(url) :
                 /\ \A j \in 1..k : url[j] # ":"
                 /\ k = Len(url) \/ url[k + 1] = ":"
    IN  Str(SubSeq(url, 1, k))

\* C8: the protocol is the URL up to its first ':'; from_url returns an
\* instance, made with the configuration, of a class among cls and its direct
\* or indirect subclasses whose protocol attribute equals it; a class without
\* protocol attribute is never chosen; and it fails, instantiating nothing,
\* exactly when no such class has that protocol.
C8_DispatchByProtocol ==
    dispatch.called =>
        LET known == recursive_subclasses(dispatch.cls)
        IN  /\ dispatch.protocol = Token(dispatch.url)
            /\ dispatch.raised = None =>
                   /\ dispatch.instance.class \in known
                   /\ registry[dispatch.instance.class] # None
                   /\ registry[dispatch.instance.class] = Token(dispatch.url)
                   /\ dispatch.instance.url = dispatch.url
            /\ dispatch.raised # None <=>
                   \A c \in known : registry[c] # Token(dispatch.url)
            /\ dispatch.raised # None =>
                   /\ dispatch.raised = "ValueError"
                   /\ dispatch.instance.class = None

\* A URL "ft:" asked of AccessPoint while the only protocol declared is "f".
C8_Witness ==
    /\ dispatch.called
    /\ dispatch.cls = "AccessPoint"
    /\ dispatch.url = <<"f", "t", ":">>
    /\ dispatch.protocol = "ft"
    /\ registry["FileSystem"] = "f"
    /\ registry["Ftp"] = None
    /\ dispatch.raised = "ValueError"

-----------------------------------------------------------------------------
(* Properties of search, under Spec. *)

\* The name is one of the names get_storage_properties returns.
Directly(name) == name \in storage_props

\* The name is a storage alias whose native name get_storage_properties returns.
ViaAlias(name) ==
    \E i \in 1..Len(storage_aliases) :
        storage_aliases[i][1] = name /\ storage_aliases[i][2] \in storage_props

MapsToNative(c) == Directly(c[1]) \/ ViaAlias(c[1])

StaysWithParser(c) == ~MapsToNative(c)

\* The native forms of a name that maps to a backend-native property.
NativeForms(name) ==
    (IF Directly(name) THEN {name} ELSE {})
    \cup {storage_aliases[i][2] : i \in {j \in 1..Len(storage_aliases) :
              storage_aliases[j][1] = name /\ storage_aliases[j][2] \in storage_props}}

\* C1: once search has divided the expanded conditions, those whose name
\* maps to a backend-native property, directly or via alias, are the storage
\* conditions, in order, each under a native form of its name with operator
\* and value unchanged; the others are the parser conditions, unmodified.
C1_PartitionTranslates ==
    gsp_calls > 0 =>
        LET mapped == SelectSeq(conditions, MapsToNative)
        IN  /\ parser_conditions = SelectSeq(conditions, StaysWithParser)
            /\ Len(storage_conditions) = Len(mapped)
            /\ \A k \in 1..Len(mapped) :
                   /\ storage_conditions[k][1] \in NativeForms(mapped[k][1])
                   /\ storage_conditions[k][2] = mapped[k][2]
                   /\ storage_conditions[k][3] = mapped[k][3]

\* The subsequence of s at the positions that side sends to tag.
Side(s, side, tag) ==
    LET Chosen(i) == side[i] = tag
        at == SelectSeq([i \in 1..Len(s) |-> i], Chosen)
    IN  [k \in 1..Len(at) |-> s[at[k]]]

OperatorAndValue(s) == [k \in 1..Len(s) |-> <<s[k][2], s[k][3]>>]

\* C5: once search has divided the expanded conditions, each of them is in
\* exactly one of storage_conditions and parser_conditions, and each of the
\* two lists keeps the order of the expanded list.
C5_TotalPartition ==
    gsp_calls > 0 =>
        /\ Len(storage_conditions) + Len(parser_conditions) = Len(conditions)
        /\ \E side \in [1..Len(conditions) -> {"storage", "parser"}] :
               /\ parser_conditions = Side(conditions, side, "parser")
               /\ OperatorAndValue(storage_conditions)
                      = OperatorAndValue(Side(conditions, side, "storage"))

\* Every parser condition holds of these properties.
Passes(properties) ==
    \A j \in 1..Len(parser_conditions) :
        LET c == parser_conditions[j]
        IN  c[1] \in DOMAIN properties /\ Apply(c[2], properties[c[1]], c[3])

PassesItem(item) == Passes(item.properties)

\* The StorageResults the loop is through with: all it took, but the one
\* whose conditions it is evaluating or whose evaluation raised.
Processed ==
    IF pc = "filter" \/ (pc = "raised" /\ ss_calls > 0) THEN consumed - 1 ELSE consumed

\* C2: the items yielded are, in backend order and once each, the items of
\* those backend results the loop is through with that satisfy every parser
\* condition; a search that ends normally is through with all of them, and
\* without parser conditions it yields them all.
C2_YieldsExactlyMatching ==
    /\ yielded = SelectSeq([k \in 1..Processed |->
                                [properties |-> results[k], opener |-> k]], PassesItem)
    /\ pc = "done" => Processed = Len(results)
    /\ (pc = "done" /\ parser_conditions = <<>>) => Len(yielded) = Len(results)

\* Of two backend results the first was rejected and the second yielded.
C2_Witness ==
    /\ pc = "done"
    /\ Len(results) = 2
    /\ parser_conditions # <<>>
    /\ ~Passes(results[1])
    /\ yielded = <<[properties |-> results[2], opener |-> 2]>>

\* The search was called and not iterated.
NotIterated == pc \in {"none", "created"} \/ (pc = "closed" /\ yielded = <<>>)

\* C6: a search that was not iterated has called neither
\* get_storage_properties nor _storage_search; a pull that yields has taken
\* no StorageResult past the one it yields, so stopping leaves the later
\* ones untaken; and the only openers invoked are those of yielded items,
\* which are among the results taken.
C6_Lazy ==
    /\ NotIterated => gsp_calls = 0 /\ ss_calls = 0 /\ consumed = 0
    /\ (pc \in {"suspended", "closed"} /\ yielded # <<>>) =>
           yielded[Len(yielded)].opener = consumed
    /\ consumed <= Len(results)
    /\ \A k \in 1..Len(yielded) : yielded[k].opener <= consumed
    /\ opened \subseteq {yielded[k].opener : k \in 1..Len(yielded)}

\* The caller stopped after the first of two results and read its content.
C6_Witness ==
    /\ pc = "closed"
    /\ Len(results) = 2
    /\ Len(yielded) = 1
    /\ consumed = 1
    /\ opened = {1}

\* C7: while the request holds a condition that omits its name and has no
\* positional default, get_storage_properties and _storage_search have not
\* been called and nothing was yielded, and if the generator raised, it
\* raised IndexError; _storage_search is called at most once, and only when
\* every condition is expanded and in one of the two lists.
C7_FailsBeforeBackend ==
    /\ (pc # "none" /\ NoDefault(property_names, conditions) # {}) =>
           /\ gsp_calls = 0
           /\ ss_calls = 0
           /\ yielded = <<>>
           /\ pc \in {"created", "expand", "closed", "raised"}
           /\ pc = "raised" => error = "IndexError"
    /\ ss_calls <= 1
    /\ ss_calls = 1 =>
           /\ gsp_calls = 1
           /\ FullySpecified(conditions)
           /\ Len(storage_conditions) + Len(parser_conditions) = Len(conditions)

\* The second of two conditions has no positional default and the search
\* raised.
C7_Witness ==
    /\ pc = "raised"
    /\ error = "IndexError"
    /\ Len(conditions) = 2
    /\ NoDefault(property_names, conditions) = {2}
    /\ gsp_calls = 0

\* What evaluating the j-th parser condition on the k-th result does.
Outcome(k, j) ==
    LET c == parser_conditions[j]
    IN  IF c[1] \notin DOMAIN results[k] THEN "raises"
        ELSE IF Apply(c[2], results[k][c[1]], c[3]) THEN "true" ELSE "false"

\* The last parser condition to evaluate on the k-th result: the first that
\* is not true, the last one when all are.
StopAt(k) ==
    LET n == Len(parser_conditions)
    IN  IF \E j \in 1..n : Outcome(k, j) # "true"
        THEN CHOOSE j \in 1..n :
                 Outcome(k, j) # "true" /\ \A i \in 1..(j - 1) : Outcome(k, i) = "true"
        ELSE n

RECURSIVE ExpectedEvaluations(_)
\* The evaluations due for the first n results.
ExpectedEvaluations(n) ==
    IF n = 0 THEN <<>>
    ELSE ExpectedEvaluations(n - 1) \o [j \in 1..StopAt(n) |-> <<n, j>>]

\* A step of the generator.
GeneratorStep == Resume \/ Expand \/ Divide \/ StorageSearch \/ Fetch \/ Filter

\* C10: on each result the parser conditions are evaluated in order up to
\* the first that is false or raises, and no further; a result with a false
\* condition is not yielded and the search goes on to the end of the
\* results; a raise leaves the generator as it is and ends the search.
C10_ShortCircuit ==
    LET due == ExpectedEvaluations(consumed)
    IN  /\ Len(evaluated) <= Len(due)
        /\ evaluated = SubSeq(due, 1, Len(evaluated))
        /\ pc # "filter" => evaluated = due
        /\ \A k \in 1..Processed :
               (parser_conditions # <<>> /\ Outcome(k, StopAt(k)) = "false") =>
                   \A i \in 1..Len(yielded) : yielded[i].opener # k
        /\ pc = "done" => consumed = Len(results)
        /\ (pc = "raised" /\ ss_calls > 0) =>
               /\ error = "KeyError"
               /\ Outcome(consumed, StopAt(consumed)) = "raises"
               /\ \A i \in 1..Len(yielded) : yielded[i].opener # consumed
        /\ pc = "raised" => ~ENABLED GeneratorStep

\* A result was rejected by the first of two parser conditions, the second
\* of which would have raised on it; the search went on and a later result
\* was yielded.
C10_Witness ==
    /\ pc = "done"
    /\ Len(parser_conditions) = 2
    /\ Len(results) = 2
    /\ Outcome(1, 1) = "false"
    /\ Outcome(1, 2) = "raises"
    /\ evaluated = <<<<1, 1>>, <<2, 1>>, <<2, 2>>>>
    /\ Len(yielded) = 1

====
